---- MODULE Spec2Model ----
(***************************************************************************)
(* FlowExemplo (src/flows/flow_exemplo_flow.py): a CrewAI flow of a start  *)
(* step, a chain of listeners, a router, four label listeners and three    *)
(* join listeners.  One run of the flow is modelled: the dict handed to    *)
(* kickoff, the steps that are ready with the value they will receive,     *)
(* what every step received and returned, and the crews that were called.  *)
(* Further specifications follow two interleaved calls of                  *)
(* executar_flow_async, the crews and the tool executed on their own, and  *)
(* the script entry point.                                                 *)
(*                                                                         *)
(* Python strings are sequences of tokens, so that an f-string is a        *)
(* concatenation; dicts are sequences of <<key, value>> pairs in insertion *)
(* order.                                                                  *)
(***************************************************************************)
EXTENDS Integers, Sequences, FiniteSets, TLC

VARIABLES
    self_state,   \* the dict kickoff received (self.state of the start step)
    phase,        \* "kickoff", "running" or "aborted"
    ready,        \* set of <<step, value it will receive>>
    fired,        \* method names and router labels that have emitted an output
    execCount,    \* step -> number of executions in this run
    input,        \* step -> <<>> or <<value the step received>>
    output,       \* step -> <<>> or <<value the step returned>>
    route,        \* <<>> or <<label the router returned>>
    routerLocal,  \* <<>> or <<the router's local flow_state when it returned>>
    crewRaised,   \* step -> <<>> or <<message of the exception its crew call raised>>
    raised,       \* <<>> or <<step whose callback let an exception escape, message>>
    crewCalls,    \* sequence of <<crew function, arguments>> in call order
    call_state,   \* the dict executar_flow_async built for this run
    current,      \* the call of executar_flow_async whose run the variables above hold
    parked,       \* the run of the other call, while this one is being executed
    clock,        \* datetime.datetime.now(): [min, sec]
    files,        \* sequence of crew executions: [fn, at, paths]
    toolCalls,    \* set of <<argument_1, argument_2, what _run returned>>
    script        \* the script entry point: [pc, resultado, caught, plotted, printed]

\* What one run of the flow consists of.
runVars == <<call_state, self_state, phase, ready, fired, execCount, input, output,
             route, routerLocal, crewRaised, raised, crewCalls>>

\* What a step of a run leaves alone: the other run, the clock, the crews'
\* files, the tool and the script that called executar_flow.
outside == <<current, parked, clock, files, toolCalls, script>>

vars == <<runVars, outside>>

----------------------------------------------------------------------------
(* Strings *)

\* Exception messages the environment may produce.
Msgs == {<<"timeout">>}

\* Topics a caller may pass.
Topicos == {<<"X">>, <<"Construção de Flows no CrewAI">>}

\* Number of characters of a token.  "crewA", "crewB" and "rel" stand for
\* long texts produced by the crews, of the lengths given here.
TokLen(t) ==
    CASE t = "timeout" -> 7
      [] t = "X" -> 1
      [] t = "Construção de Flows no CrewAI" -> 29
      [] t = "crewA" -> 289
      [] t = "crewB" -> 290
      [] t = "rel" -> 400
      [] t = "erro" -> 4
      [] t = "resultado_alternativo" -> 21
      [] t = "raw" -> 3
      [] t = "Dados de fallback" -> 17
      [] t = "Análise complexa indisponível" -> 29
      [] t = "Não foi possível gerar o relatório: " -> 36
      [] OTHER -> 0

RECURSIVE len(_)
\* len(s) of a Python str
len(s) == IF s = <<>> THEN 0 ELSE TokLen(Head(s)) + len(Tail(s))

RECURSIVE StrItems(_)
\* the items of str(dict): 'k': 'v' separated by ", "
StrItems(d) ==
    IF d = <<>> THEN <<>>
    ELSE <<"'">> \o <<d[1][1]>> \o <<"': '">> \o d[1][2] \o <<"'">>
         \o (IF Len(d) > 1 THEN <<", ">> ELSE <<>>) \o StrItems(Tail(d))

\* str(d) of a dict of str values
str(d) == <<"{">> \o StrItems(d) \o <<"}">>

RECURSIVE lenItems(_)
lenItems(d) ==
    IF d = <<>> THEN 0
    ELSE 1 + TokLen(d[1][1]) + 4 + len(d[1][2]) + 1
         + (IF Len(d) > 1 THEN 2 ELSE 0) + lenItems(Tail(d))

\* len(str(d)) of a dict of str values
lenStr(d) == 2 + lenItems(d)

----------------------------------------------------------------------------
(* The state model *)

\* FlowExemploState(topico=..., info_externa_1=...): the other fields take
\* their defaults.
FlowExemploState(topico, info_externa_1) ==
    [topico                   |-> topico,
     info_externa_1           |-> info_externa_1,
     info_externa_2           |-> <<>>,
     info_externa_3           |-> <<>>,
     resultado_crew_exemplo   |-> <<>>,
     resultado_crew_exemplo_2 |-> <<>>,
     relatorio_final          |-> <<>>,
     processamento_complexo   |-> FALSE,
     validacao_aprovada       |-> FALSE,
     tipo_processamento       |-> "",
     logs_or                  |-> <<>>,
     logs_and                 |-> <<>>,
     logs_router              |-> <<>>]

RECURSIVE Get(_, _, _)
\* dict.get(key, default)
Get(d, key, default) ==
    IF d = <<>> THEN default
    ELSE IF d[1][1] = key THEN d[1][2] ELSE Get(Tail(d), key, default)

\* The keys of a dict.
Keys(d) == {d[i][1] : i \in DOMAIN d}

\* The dicts a caller may hand to kickoff: executar_flow builds
\* {"topico": topico} and adds its keyword arguments; FlowExemplo().kickoff
\* may also be called with a dict that has no topico.
KickoffInputs ==
    {<<>>, << <<"info_externa_1", <<"Foco">>>> >>, << <<"relatorio_final", <<"rel">>>> >>}
    \cup { << <<"topico", t>> >> : t \in Topicos }
    \cup { << <<"topico", t>>, <<"info_externa_1", <<"Foco">>>> >> : t \in Topicos }
    \cup { << <<"topico", t>>, <<"relatorio_final", <<"rel">>>> >> : t \in Topicos }

----------------------------------------------------------------------------
(* The step callbacks, as functions of what they receive *)

\* An iniciar_flow that also takes a relatorio_final from the kickoff dict.
iniciar_flow_PassThrough(current_state) ==
    [FlowExemploState(
        Get(current_state, "topico", <<"[Tópico não especificado]">>),
        Get(current_state, "info_externa_1",
            <<"Contexto inicial sobre ">> \o Get(current_state, "topico", <<"[Tópico]">>)))
     EXCEPT !.relatorio_final = Get(current_state, "relatorio_final", <<>>)]

\* iniciar_flow: the state built from the kickoff dict.
iniciar_flow(current_state) ==
    FlowExemploState(
        Get(current_state, "topico", <<"[Tópico não especificado]">>),
        Get(current_state, "info_externa_1",
            <<"Contexto inicial sobre ">> \o Get(current_state, "topico", <<"[Tópico]">>)))

\* A preparation step that writes only the second and third context strings.
preparar_informacoes_externas_KeepCaller(state) ==
    [state EXCEPT
        !.info_externa_2 = <<"Dados complementares relacionados a '">> \o state.topico \o <<"'">>,
        !.info_externa_3 = <<"Informações adicionais relevantes para '">> \o state.topico \o <<"'">>]

\* preparar_informacoes_externas: the three context strings, from topico.
preparar_informacoes_externas(state) ==
    [state EXCEPT
        !.info_externa_1 = <<"Contexto principal sobre '">> \o state.topico \o <<"'">>,
        !.info_externa_2 = <<"Dados complementares relacionados a '">> \o state.topico \o <<"'">>,
        !.info_externa_3 = <<"Informações adicionais relevantes para '">> \o state.topico \o <<"'">>]

\* What a crew call does: it returns a dict or raises an exception.
CrewOutcomes ==
    { [raises |-> FALSE, value |-> << <<"raw", <<c>>>> >>, msg |-> <<>>] : c \in {"crewA", "crewB"} }
    \cup { [raises |-> TRUE, value |-> <<>>, msg |-> m] : m \in Msgs }

\* The fallback dict of executar_crew_exemplo's except branch.
FallbackCrewExemplo(msg) ==
    << <<"erro", msg>>, <<"resultado_alternativo", <<"Dados de fallback">>>> >>

\* The arguments executar_crew_exemplo passes to metodo_de_execucao_da_crew.
ArgsCrewExemplo(state) ==
    << <<"info_externa_1", state.info_externa_1>>,
       <<"info_externa_2", state.info_externa_2>>,
       <<"info_externa_3", state.info_externa_3>> >>

\* executar_crew_exemplo with an except branch that writes nothing.
executar_crew_exemplo_NoFallback(state, outcome) ==
    [state EXCEPT !.resultado_crew_exemplo =
        IF outcome.raises THEN state.resultado_crew_exemplo ELSE outcome.value]

\* executar_crew_exemplo: the crew's result, or the fallback when it raised.
executar_crew_exemplo(state, outcome) ==
    [state EXCEPT !.resultado_crew_exemplo =
        IF outcome.raises THEN FallbackCrewExemplo(outcome.msg) ELSE outcome.value]

\* The fallback dict of executar_crew_exemplo_2's except branch.
FallbackCrewExemplo2(msg) ==
    << <<"erro", msg>>, <<"resultado_alternativo", <<"Análise complexa indisponível">>>> >>

\* The arguments executar_crew_exemplo_2 passes to metodo_de_execucao_da_crew_2.
ArgsCrewExemplo2(state) ==
    << <<"dados_complexos", str(state.resultado_crew_exemplo)>>,
       <<"contexto_adicional", state.info_externa_1>>,
       <<"parametros_tecnicos", <<"Análise técnica de: ">> \o state.topico>> >>

\* An executar_crew_exemplo_2 that stores its result in the first crew's field.
executar_crew_exemplo_2_WrongField(state, outcome) ==
    [state EXCEPT !.resultado_crew_exemplo =
        IF outcome.raises THEN FallbackCrewExemplo2(outcome.msg) ELSE outcome.value]

\* executar_crew_exemplo_2: the crew's result, or the fallback when it raised.
executar_crew_exemplo_2(state, outcome) ==
    [state EXCEPT !.resultado_crew_exemplo_2 =
        IF outcome.raises THEN FallbackCrewExemplo2(outcome.msg) ELSE outcome.value]

\* What the report crew call does: it returns an object that has a raw
\* attribute or one that has not (text is its raw, or its str()), or raises.
RelatorioOutcomes ==
    { [raises |-> FALSE, hasRaw |-> h, text |-> <<"rel">>, msg |-> <<>>] : h \in BOOLEAN }
    \cup { [raises |-> TRUE, hasRaw |-> FALSE, text |-> <<>>, msg |-> m] : m \in Msgs }

\* The fallback string of gerar_relatorio_final's except branch.
FallbackRelatorio(msg) == <<"Não foi possível gerar o relatório: ">> \o msg

\* The arguments gerar_relatorio_final passes to executar_crew_relatorio:
\* str(dados_consolidados) and topico.
ArgsCrewRelatorio(state) ==
    << <<"dados_entrada",
         <<"{'crew_exemplo': ">> \o str(state.resultado_crew_exemplo)
         \o <<", 'crew_exemplo_2': ">> \o str(state.resultado_crew_exemplo_2)
         \o <<", 'topico': '">> \o state.topico \o <<"'}">> >>,
       <<"topico", state.topico>> >>

\* gerar_relatorio_final: the report text, or the fallback when the crew raised.
gerar_relatorio_final(state, outcome) ==
    [state EXCEPT !.relatorio_final =
        IF outcome.raises THEN FallbackRelatorio(outcome.msg) ELSE outcome.text]

\* The threshold of avaliar_complexidade.
Threshold == 1000

\* avaliar_complexidade comparing with >= instead of >.
avaliar_complexidade_Ge(state, choice) ==
    LET total_content == len(state.relatorio_final)
                         + lenStr(state.resultado_crew_exemplo)
                         + lenStr(state.resultado_crew_exemplo_2)
    IN [state EXCEPT !.processamento_complexo = total_content >= Threshold,
                     !.validacao_aprovada = choice]

\* avaliar_complexidade: the two flags; choice is what random.choice returned.
avaliar_complexidade(state, choice) ==
    LET relatorio_length == len(state.relatorio_final)
        crew_1_length == lenStr(state.resultado_crew_exemplo)
        crew_2_length == lenStr(state.resultado_crew_exemplo_2)
        total_content == relatorio_length + crew_1_length + crew_2_length
    IN [state EXCEPT !.processamento_complexo = total_content > Threshold,
                     !.validacao_aprovada = choice]

\* A router whose third branch is missing: simple and approved falls to the else.
decidir_tipo_processamento_NoSimplesAprovado(state) ==
    LET l == IF state.processamento_complexo /\ state.validacao_aprovada
                THEN "complexo_aprovado"
             ELSE IF state.processamento_complexo THEN "complexo_rejeitado"
             ELSE "simples_rejeitado"
    IN [label |-> l,
        flow_state |-> [state EXCEPT !.tipo_processamento = l,
                                     !.logs_router = Append(@, l)]]

\* decidir_tipo_processamento: the label it returns and the local flow_state
\* it has built and assigned to by then.
decidir_tipo_processamento(state) ==
    IF state.processamento_complexo /\ state.validacao_aprovada THEN
        [label |-> "complexo_aprovado",
         flow_state |-> [state EXCEPT
            !.tipo_processamento = "complexo_aprovado",
            !.logs_router = Append(@, "Escolhido: processamento complexo aprovado")]]
    ELSE IF state.processamento_complexo /\ ~state.validacao_aprovada THEN
        [label |-> "complexo_rejeitado",
         flow_state |-> [state EXCEPT
            !.tipo_processamento = "complexo_rejeitado",
            !.logs_router = Append(@, "Escolhido: processamento complexo rejeitado")]]
    ELSE IF ~state.processamento_complexo /\ state.validacao_aprovada THEN
        [label |-> "simples_aprovado",
         flow_state |-> [state EXCEPT
            !.tipo_processamento = "simples_aprovado",
            !.logs_router = Append(@, "Escolhido: processamento simples aprovado")]]
    ELSE
        [label |-> "simples_rejeitado",
         flow_state |-> [state EXCEPT
            !.tipo_processamento = "simples_rejeitado",
            !.logs_router = Append(@, "Escolhido: processamento simples rejeitado")]]

\* A router that assigns to the dict it received instead of to a copy.
RouterReceivedAfter_InPlace(state, flow_state) == flow_state

\* The dict the router received, as it is once the router has returned: the
\* router assigns to the FlowExemploState it built from the dict, a copy.
RouterReceivedAfter(state, flow_state) == state

processamento_avancado(state) ==
    [state EXCEPT !.logs_or = Append(@, "Processamento avançado executado")]

processamento_rapido(state) ==
    [state EXCEPT !.logs_or = Append(@, "Processamento rápido executado")]

\* A logger that appends its entry to logs_and.
logger_processamento_aprovado_WrongList(state) ==
    [state EXCEPT !.logs_and = Append(@, "Logger OR: processamento aprovado registrado")]

logger_processamento_aprovado(state) ==
    [state EXCEPT !.logs_or = Append(@, "Logger OR: processamento aprovado registrado")]

analise_rejeicao_complexa(state) ==
    [state EXCEPT !.logs_and = Append(@, "Análise de rejeição complexa executada")]

analise_rejeicao_simples(state) ==
    [state EXCEPT !.logs_and = Append(@, "Análise de rejeição simples executada")]

consolidar_analises_rejeicao(state) ==
    [state EXCEPT !.logs_and =
        Append(@, "Consolidação AND: todas as análises de rejeição processadas")]

\* finalizar_flow prints a summary and returns the state it received.
finalizar_flow(state) == state

----------------------------------------------------------------------------
(* The step graph, as the decorators declare it *)

Steps ==
    {"iniciar_flow", "preparar_informacoes_externas", "executar_crew_exemplo",
     "executar_crew_exemplo_2", "gerar_relatorio_final", "avaliar_complexidade",
     "decidir_tipo_processamento", "processamento_avancado", "processamento_rapido",
     "logger_processamento_aprovado", "analise_rejeicao_complexa",
     "analise_rejeicao_simples", "consolidar_analises_rejeicao", "finalizar_flow"}

\* The labels the router returns.
Labels == {"complexo_aprovado", "complexo_rejeitado", "simples_aprovado", "simples_rejeitado"}

\* The steps declared with or_ or and_.
JoinSteps ==
    {"logger_processamento_aprovado", "consolidar_analises_rejeicao", "finalizar_flow"}

\* @start(): no trigger.
listen_iniciar_flow == [kind |-> "START", on |-> {}]

listen_preparar_informacoes_externas == [kind |-> "SINGLE", on |-> {"iniciar_flow"}]

\* executar_crew_exemplo also listening to a step that comes after it.
listen_executar_crew_exemplo_Cycle ==
    [kind |-> "OR", on |-> {"preparar_informacoes_externas", "gerar_relatorio_final"}]

listen_executar_crew_exemplo == [kind |-> "SINGLE", on |-> {"preparar_informacoes_externas"}]

\* executar_crew_exemplo_2 listening to the preparation step, beside the first crew step.
listen_executar_crew_exemplo_2_Parallel ==
    [kind |-> "SINGLE", on |-> {"preparar_informacoes_externas"}]

listen_executar_crew_exemplo_2 == [kind |-> "SINGLE", on |-> {"executar_crew_exemplo"}]

\* gerar_relatorio_final listening to the first crew step.
listen_gerar_relatorio_final_Early == [kind |-> "SINGLE", on |-> {"executar_crew_exemplo"}]

listen_gerar_relatorio_final == [kind |-> "SINGLE", on |-> {"executar_crew_exemplo_2"}]

\* avaliar_complexidade also listening to itself.
listen_avaliar_complexidade_Loop ==
    [kind |-> "OR", on |-> {"gerar_relatorio_final", "avaliar_complexidade"}]

listen_avaliar_complexidade == [kind |-> "SINGLE", on |-> {"gerar_relatorio_final"}]

\* @router("avaliar_complexidade")
listen_decidir_tipo_processamento == [kind |-> "SINGLE", on |-> {"avaliar_complexidade"}]

listen_processamento_avancado == [kind |-> "SINGLE", on |-> {"complexo_aprovado"}]

\* processamento_rapido listening to a label the router never returns.
listen_processamento_rapido_Typo == [kind |-> "SINGLE", on |-> {"simples_aprovad"}]

listen_processamento_rapido == [kind |-> "SINGLE", on |-> {"simples_aprovado"}]

\* The logger also listening to the router labels of the approved branches.
listen_logger_processamento_aprovado_OnLabels ==
    [kind |-> "OR", on |-> {"complexo_aprovado", "simples_aprovado",
                             "processamento_avancado", "processamento_rapido"}]

listen_logger_processamento_aprovado ==
    [kind |-> "OR", on |-> {"processamento_avancado", "processamento_rapido"}]

listen_analise_rejeicao_complexa == [kind |-> "SINGLE", on |-> {"complexo_rejeitado"}]

listen_analise_rejeicao_simples == [kind |-> "SINGLE", on |-> {"simples_rejeitado"}]

\* The consolidation declared with or_ instead of and_.
listen_consolidar_analises_rejeicao_Or ==
    [kind |-> "OR", on |-> {"analise_rejeicao_complexa", "analise_rejeicao_simples"}]

listen_consolidar_analises_rejeicao ==
    [kind |-> "AND", on |-> {"analise_rejeicao_complexa", "analise_rejeicao_simples"}]

\* finalizar_flow also listening to the approved branch steps themselves.
listen_finalizar_flow_OnBranches ==
    [kind |-> "OR", on |-> {"processamento_avancado", "processamento_rapido",
                             "logger_processamento_aprovado", "consolidar_analises_rejeicao"}]

listen_finalizar_flow ==
    [kind |-> "OR", on |-> {"logger_processamento_aprovado", "consolidar_analises_rejeicao"}]

\* The trigger condition of a step.
listen(s) ==
    CASE s = "iniciar_flow" -> listen_iniciar_flow
      [] s = "preparar_informacoes_externas" -> listen_preparar_informacoes_externas
      [] s = "executar_crew_exemplo" -> listen_executar_crew_exemplo
      [] s = "executar_crew_exemplo_2" -> listen_executar_crew_exemplo_2
      [] s = "gerar_relatorio_final" -> listen_gerar_relatorio_final
      [] s = "avaliar_complexidade" -> listen_avaliar_complexidade
      [] s = "decidir_tipo_processamento" -> listen_decidir_tipo_processamento
      [] s = "processamento_avancado" -> listen_processamento_avancado
      [] s = "processamento_rapido" -> listen_processamento_rapido
      [] s = "logger_processamento_aprovado" -> listen_logger_processamento_aprovado
      [] s = "analise_rejeicao_complexa" -> listen_analise_rejeicao_complexa
      [] s = "analise_rejeicao_simples" -> listen_analise_rejeicao_simples
      [] s = "consolidar_analises_rejeicao" -> listen_consolidar_analises_rejeicao
      [] s = "finalizar_flow" -> listen_finalizar_flow

\* The steps a trigger (a method name or a router label) makes ready, given
\* the triggers that have emitted so far, this one included: a SINGLE or OR
\* step on any of its triggers, an AND step once all of its triggers emitted.
Listeners(trigger, emitted) ==
    {s \in Steps :
        /\ trigger \in listen(s).on
        /\ listen(s).kind = "AND" => listen(s).on \subseteq emitted}

----------------------------------------------------------------------------
(* One run *)

NoneOf(S) == [s \in S |-> <<>>]

\* Executions of one step that a run is followed for.
MaxExec == 2

\* A step that appends in place to the lists of the dict it received.
StateReceivedAfter_InPlace(state, flow_state) == flow_state

\* The dict a step received, as it is once the step has returned: the step
\* assigns and appends to the FlowExemploState it built from the dict, whose
\* lists are copies.
StateReceivedAfter(state, flow_state) == state

\* The returned values the flow holds, once the dict that was received as
\* state has become after: the received dict is the object that the step
\* before returned.
Held(out, state, after) ==
    [p \in Steps |-> IF out[p] = <<state>> THEN <<after>> ELSE out[p]]

\* Midnight: no time has passed, no crew and no tool has been executed.
Idle ==
    /\ clock = [min |-> 0, sec |-> 0]
    /\ files = <<>>
    /\ toolCalls = {}
    /\ script = [pc |-> "try", resultado |-> <<>>, caught |-> <<>>, plotted |-> 0,
                 printed |-> <<>>]

Init ==
    /\ call_state \in KickoffInputs
    /\ self_state = call_state
    /\ current = 1
    /\ parked = <<>>
    /\ Idle
    /\ phase = "kickoff"
    /\ ready = {}
    /\ fired = {}
    /\ execCount = [s \in Steps |-> 0]
    /\ input = NoneOf(Steps)
    /\ output = NoneOf(Steps)
    /\ route = <<>>
    /\ routerLocal = <<>>
    /\ crewRaised = NoneOf(Steps)
    /\ raised = <<>>
    /\ crewCalls = <<>>

\* Step m, taken from the ready set as inv, returns result and emits trigger:
\* the steps listening to the trigger become ready with result.
Emit(m, inv, trigger, result) ==
    /\ execCount[m] < MaxExec
    /\ fired' = fired \cup {trigger}
    /\ ready' = (ready \ {inv})
                 \cup {<<s, result>> : s \in Listeners(trigger, fired \cup {trigger})}
    /\ execCount' = [execCount EXCEPT ![m] = @ + 1]
    /\ input' = [input EXCEPT ![m] = <<inv[2]>>]
    /\ UNCHANGED <<call_state, self_state, phase, raised, outside>>

\* An escaping exception handled as a completion: the step's successors
\* receive what the step received.
Escape_Degrade(m, inv, msg) ==
    /\ execCount[m] < MaxExec
    /\ raised' = <<m, msg>>
    /\ fired' = fired \cup {m}
    /\ ready' = (ready \ {inv}) \cup {<<s, inv[2]>> : s \in Listeners(m, fired \cup {m})}
    /\ execCount' = [execCount EXCEPT ![m] = @ + 1]
    /\ input' = [input EXCEPT ![m] = <<inv[2]>>]
    /\ UNCHANGED <<call_state, self_state, phase, output, route, routerLocal, crewRaised,
                   crewCalls, outside>>

\* Step m lets an exception escape its callback: it returns nothing, kickoff
\* raises to the caller of executar_flow and no further step is dispatched.
Escape(m, inv, msg) ==
    /\ execCount[m] < MaxExec
    /\ phase' = "aborted"
    /\ raised' = <<m, msg>>
    /\ ready' = {}
    /\ execCount' = [execCount EXCEPT ![m] = @ + 1]
    /\ input' = [input EXCEPT ![m] = <<inv[2]>>]
    /\ UNCHANGED <<call_state, self_state, fired, output, route, routerLocal, crewRaised,
                   crewCalls, outside>>

\* A step whose callback calls no crew: it returns body or lets an exception escape.
PlainStep(m, inv, body) ==
    \/ /\ Emit(m, inv, m, body)
       /\ output' = [Held(output, inv[2], StateReceivedAfter(inv[2], body))
                        EXCEPT ![m] = <<body>>]
       /\ UNCHANGED <<route, routerLocal, crewRaised, crewCalls>>
    \/ \E msg \in Msgs : Escape(m, inv, msg)

\* A step whose callback calls a crew inside try/except.
CrewStep(m, inv, crew, args, body, outcome) ==
    \/ /\ Emit(m, inv, m, body)
       /\ output' = [Held(output, inv[2], StateReceivedAfter(inv[2], body))
                        EXCEPT ![m] = <<body>>]
       /\ crewRaised' = [crewRaised EXCEPT ![m] =
                            IF outcome.raises THEN <<outcome.msg>> ELSE <<>>]
       /\ crewCalls' = Append(crewCalls, <<crew, args>>)
       /\ UNCHANGED <<route, routerLocal>>
    \/ \E msg \in Msgs : Escape(m, inv, msg)

Step_iniciar_flow ==
    /\ phase = "kickoff"
    /\ \/ /\ phase' = "running"
          /\ fired' = fired \cup {"iniciar_flow"}
          /\ ready' = {<<s, iniciar_flow(self_state)>> :
                            s \in Listeners("iniciar_flow", fired \cup {"iniciar_flow"})}
          /\ execCount' = [execCount EXCEPT !["iniciar_flow"] = @ + 1]
          /\ output' = [output EXCEPT !["iniciar_flow"] = <<iniciar_flow(self_state)>>]
          /\ UNCHANGED <<call_state, self_state, input, route, routerLocal, crewRaised,
                         raised, crewCalls, outside>>
       \/ /\ \E msg \in Msgs :
                /\ phase' = "aborted"
                /\ raised' = <<"iniciar_flow", msg>>
          /\ execCount' = [execCount EXCEPT !["iniciar_flow"] = @ + 1]
          /\ UNCHANGED <<call_state, self_state, ready, fired, input, output, route,
                         routerLocal, crewRaised, crewCalls, outside>>

Step_preparar_informacoes_externas ==
    \E inv \in ready :
        /\ inv[1] = "preparar_informacoes_externas"
        /\ PlainStep(inv[1], inv, preparar_informacoes_externas(inv[2]))

Step_executar_crew_exemplo ==
    \E inv \in ready, outcome \in CrewOutcomes :
        /\ inv[1] = "executar_crew_exemplo"
        /\ CrewStep(inv[1], inv, "metodo_de_execucao_da_crew", ArgsCrewExemplo(inv[2]),
                    executar_crew_exemplo(inv[2], outcome), outcome)

Step_executar_crew_exemplo_2 ==
    \E inv \in ready, outcome \in CrewOutcomes :
        /\ inv[1] = "executar_crew_exemplo_2"
        /\ CrewStep(inv[1], inv, "metodo_de_execucao_da_crew_2", ArgsCrewExemplo2(inv[2]),
                    executar_crew_exemplo_2(inv[2], outcome), outcome)

Step_gerar_relatorio_final ==
    \E inv \in ready, outcome \in RelatorioOutcomes :
        /\ inv[1] = "gerar_relatorio_final"
        /\ CrewStep(inv[1], inv, "executar_crew_relatorio", ArgsCrewRelatorio(inv[2]),
                    gerar_relatorio_final(inv[2], outcome), outcome)

Step_avaliar_complexidade ==
    \E inv \in ready, choice \in BOOLEAN :
        /\ inv[1] = "avaliar_complexidade"
        /\ PlainStep(inv[1], inv, avaliar_complexidade(inv[2], choice))

\* The router returns a label; the steps listening to the label receive the
\* dict the router received.
Step_decidir_tipo_processamento ==
    \E inv \in ready :
        /\ inv[1] = "decidir_tipo_processamento"
        /\ LET r == decidir_tipo_processamento(inv[2]) IN
            \/ /\ Emit(inv[1], inv, r.label, RouterReceivedAfter(inv[2], r.flow_state))
               /\ route' = <<r.label>>
               /\ routerLocal' = <<r.flow_state>>
               /\ output' = Held(output, inv[2], RouterReceivedAfter(inv[2], r.flow_state))
               /\ UNCHANGED <<crewRaised, crewCalls>>
            \/ \E msg \in Msgs : Escape(inv[1], inv, msg)

Step_processamento_avancado ==
    \E inv \in ready :
        /\ inv[1] = "processamento_avancado"
        /\ PlainStep(inv[1], inv, processamento_avancado(inv[2]))

Step_processamento_rapido ==
    \E inv \in ready :
        /\ inv[1] = "processamento_rapido"
        /\ PlainStep(inv[1], inv, processamento_rapido(inv[2]))

Step_analise_rejeicao_complexa ==
    \E inv \in ready :
        /\ inv[1] = "analise_rejeicao_complexa"
        /\ PlainStep(inv[1], inv, analise_rejeicao_complexa(inv[2]))

Step_analise_rejeicao_simples ==
    \E inv \in ready :
        /\ inv[1] = "analise_rejeicao_simples"
        /\ PlainStep(inv[1], inv, analise_rejeicao_simples(inv[2]))

\* The callback of a step declared with or_ or and_.
JoinBody(s, state) ==
    CASE s = "logger_processamento_aprovado" -> logger_processamento_aprovado(state)
      [] s = "consolidar_analises_rejeicao" -> consolidar_analises_rejeicao(state)
      [] s = "finalizar_flow" -> finalizar_flow(state)

\* A step declared with or_ or and_ runs.
Step_join ==
    \E inv \in ready :
        /\ inv[1] \in JoinSteps
        /\ PlainStep(inv[1], inv, JoinBody(inv[1], inv[2]))

Next ==
    \/ Step_iniciar_flow
    \/ Step_preparar_informacoes_externas
    \/ Step_executar_crew_exemplo
    \/ Step_executar_crew_exemplo_2
    \/ Step_gerar_relatorio_final
    \/ Step_avaliar_complexidade
    \/ Step_decidir_tipo_processamento
    \/ Step_processamento_avancado
    \/ Step_processamento_rapido
    \/ Step_analise_rejeicao_complexa
    \/ Step_analise_rejeicao_simples
    \/ Step_join

Spec == Init /\ [][Next]_vars

\* The flow runs a step whenever one is ready: kickoff awaits every step it
\* has triggered.
FairSpec == Spec /\ WF_vars(Next)

\* The run is over: kickoff returned (no step is ready) or raised.
Terminated == phase = "running" /\ ready = {}

Aborted == phase = "aborted"

----------------------------------------------------------------------------
(* Two calls of executar_flow_async on one event loop *)

RECURSIVE Update(_, _)
\* dict.update: d with the pairs of e, a key of d keeping its place
Update(d, e) ==
    IF e = <<>> THEN d
    ELSE LET k == Head(e)[1]
             v == Head(e)[2]
             put == IF k \in Keys(d)
                    THEN [i \in DOMAIN d |-> IF d[i][1] = k THEN <<k, v>> ELSE d[i]]
                    ELSE Append(d, <<k, v>>)
         IN Update(put, Tail(e))

\* The dict executar_flow_async hands to kickoff.
executar_flow_async(topico, kwargs) == Update(<< <<"topico", topico>> >>, kwargs)

\* Keyword arguments a caller may add.
Kwargs == {<<>>, << <<"info_externa_1", <<"Foco">>>> >>}

\* One FlowExemplo that every call uses.
FlowInstance_Shared(call) == 1

\* The FlowExemplo a call runs: the one it constructs.
FlowInstance(call) == call

\* The run the variables hold, as one value.
Run ==
    [call_state |-> call_state, self_state |-> self_state, phase |-> phase,
     ready |-> ready, fired |-> fired, execCount |-> execCount, input |-> input,
     output |-> output, route |-> route, routerLocal |-> routerLocal,
     crewRaised |-> crewRaised, raised |-> raised, crewCalls |-> crewCalls]

\* A call that has built its dict and a FlowExemplo, before kickoff.
Called(state) ==
    [call_state |-> state, self_state |-> <<>>, phase |-> "called",
     ready |-> {}, fired |-> {}, execCount |-> [s \in Steps |-> 0],
     input |-> NoneOf(Steps), output |-> NoneOf(Steps), route |-> <<>>,
     routerLocal |-> <<>>, crewRaised |-> NoneOf(Steps), raised |-> <<>>,
     crewCalls |-> <<>>]

\* The variables hold the run c.
RunIs(c) ==
    /\ call_state = c.call_state
    /\ self_state = c.self_state
    /\ phase = c.phase
    /\ ready = c.ready
    /\ fired = c.fired
    /\ execCount = c.execCount
    /\ input = c.input
    /\ output = c.output
    /\ route = c.route
    /\ routerLocal = c.routerLocal
    /\ crewRaised = c.crewRaised
    /\ raised = c.raised
    /\ crewCalls = c.crewCalls

\* Two calls, the first with topic X and the second with the other topic.
InitTwoCalls ==
    /\ \E kwargs \in Kwargs : RunIs(Called(executar_flow_async(<<"X">>, kwargs)))
    /\ current = 1
    /\ parked = <<Called(executar_flow_async(<<"Construção de Flows no CrewAI">>, <<>>))>>
    /\ Idle

\* flow.kickoff(state): the inputs are written into self.state of the flow.
Kickoff ==
    /\ phase = "called"
    /\ phase' = "kickoff"
    /\ self_state' = Update(self_state, call_state)
    /\ UNCHANGED <<call_state, ready, fired, execCount, input, output, route, routerLocal,
                   crewRaised, raised, crewCalls, outside>>

\* The event loop leaves the run of one call, between two of its steps, and
\* resumes the run of the other.  self.state belongs to the flow instance.
Switch ==
    /\ parked # <<>>
    /\ current' = 3 - current
    /\ parked' = <<Run>>
    /\ self_state' = IF FlowInstance(1) = FlowInstance(2)
                      THEN self_state ELSE parked[1].self_state
    /\ call_state' = parked[1].call_state
    /\ phase' = parked[1].phase
    /\ ready' = parked[1].ready
    /\ fired' = parked[1].fired
    /\ execCount' = parked[1].execCount
    /\ input' = parked[1].input
    /\ output' = parked[1].output
    /\ route' = parked[1].route
    /\ routerLocal' = parked[1].routerLocal
    /\ crewRaised' = parked[1].crewRaised
    /\ raised' = parked[1].raised
    /\ crewCalls' = parked[1].crewCalls
    /\ UNCHANGED <<clock, files, toolCalls, script>>

NextTwoCalls == Kickoff \/ Switch \/ Next

TwoCallsSpec == InitTwoCalls /\ [][NextTwoCalls]_vars

----------------------------------------------------------------------------
(* The crews and the tool, executed on their own *)

\* Minutes the clock is followed for.
MaxMin == 1

\* Crew executions that are followed.
MaxCrewExec == 2

\* strftime("%Y%m%d_%H%M"): the date, the hour and the minute of now, without
\* its seconds.  Minutes are counted from midnight of the first day.
strftime(now) == <<ToString(now.min)>>

\* output_file of CrewExemplo.task_1
task_1(now) == <<"resultados/crew_exemplo/tasks/task_1_">> \o strftime(now) \o <<".md">>

\* output_file of CrewExemplo.task_2
task_2(now) == <<"resultados/crew_exemplo/tasks/task_2_">> \o strftime(now) \o <<".md">>

\* output_log_file of CrewExemplo.crew
CrewExemplo_crew(now) ==
    <<"resultados/crew_exemplo/crew/crew_">> \o strftime(now) \o <<".json">>

\* output_file of CrewExemplo2.analise_complexa
analise_complexa(now) ==
    <<"resultados/crew_exemplo_2/tasks/analise_complexa_">> \o strftime(now) \o <<".md">>

\* output_file of CrewExemplo2.sintese_integrada
sintese_integrada(now) ==
    <<"resultados/crew_exemplo_2/tasks/sintese_integrada_">> \o strftime(now) \o <<".md">>

\* output_log_file of CrewExemplo2.crew
CrewExemplo2_crew(now) ==
    <<"resultados/crew_exemplo_2/crew/crew_exemplo_2_">> \o strftime(now) \o <<".json">>

\* output_file of CrewRelatorio.gerar_relatorio
gerar_relatorio(now) ==
    <<"resultados/crew_relatorio/relatorio_final_">> \o strftime(now) \o <<".md">>

\* The files one execution of a crew function writes: task or "crew" -> path.
OutputFiles(fn, now) ==
    CASE fn = "metodo_de_execucao_da_crew" ->
            ("task_1" :> task_1(now)) @@ ("task_2" :> task_2(now))
            @@ ("crew" :> CrewExemplo_crew(now))
      [] fn = "metodo_de_execucao_da_crew_2" ->
            ("analise_complexa" :> analise_complexa(now))
            @@ ("sintese_integrada" :> sintese_integrada(now))
            @@ ("crew" :> CrewExemplo2_crew(now))
      [] fn = "executar_crew_relatorio" ->
            ("gerar_relatorio" :> gerar_relatorio(now))

\* ExemploTool._metodo_interno_1
_metodo_interno_1 == <<"metodo interno 1">>

\* ExemploTool._metodo_interno_2
_metodo_interno_2 == <<"metodo interno 2">>

\* ExemploTool._metodo_interno_3
_metodo_interno_3 ==
    <<"Organizar as informações retornadas pelos métodos internos: ">>
    \o _metodo_interno_1 \o <<" ">> \o _metodo_interno_2

\* A _run that organises its two arguments.
_run_Echo(argument_1, argument_2) ==
    <<"Organizar as informações retornadas pelos métodos internos: ">>
    \o argument_1 \o <<" ">> \o argument_2

\* ExemploTool._run
_run(argument_1, argument_2) == _metodo_interno_3

\* Argument strings an agent may pass to the tool.
ToolArguments == {<<"contexto principal">>, <<"refinamento">>}

\* No flow is run.
InitCrews ==
    /\ RunIs(Called(<<>>))
    /\ current = 1
    /\ parked = <<>>
    /\ Idle

\* Half a minute passes.
Tick ==
    /\ clock.min < MaxMin \/ clock.sec = 0
    /\ clock' = IF clock.sec = 0 THEN [clock EXCEPT !.sec = 30]
                 ELSE [min |-> clock.min + 1, sec |-> 0]
    /\ UNCHANGED <<runVars, current, parked, files, toolCalls, script>>

\* A crew function is executed: its crew and tasks are built, each with an
\* output path computed from the time of the call.
Exec(fn) ==
    /\ Len(files) < MaxCrewExec
    /\ files' = Append(files, [fn |-> fn, at |-> clock, paths |-> OutputFiles(fn, clock)])
    /\ UNCHANGED <<runVars, current, parked, clock, toolCalls, script>>

Exec_metodo_de_execucao_da_crew == Exec("metodo_de_execucao_da_crew")

Exec_metodo_de_execucao_da_crew_2 == Exec("metodo_de_execucao_da_crew_2")

Exec_executar_crew_relatorio == Exec("executar_crew_relatorio")

\* An agent calls the tool.
Call_ExemploTool ==
    \E argument_1 \in ToolArguments, argument_2 \in ToolArguments :
        /\ toolCalls' = toolCalls \cup {<<argument_1, argument_2, _run(argument_1, argument_2)>>}
        /\ UNCHANGED <<runVars, current, parked, clock, files, script>>

NextCrews ==
    \/ Tick
    \/ Exec_metodo_de_execucao_da_crew
    \/ Exec_metodo_de_execucao_da_crew_2
    \/ Exec_executar_crew_relatorio
    \/ Call_ExemploTool

CrewSpec == InitCrews /\ [][NextCrews]_vars

----------------------------------------------------------------------------
(* The script entry point *)

TOPICO_EXEMPLO == <<"Construção de Flows no CrewAI">>

INFO_ADICIONAL == <<"Foco em integração de componentes e boas práticas">>

\* The dict executar_flow hands to kickoff.
executar_flow(topico, kwargs) == Update(<< <<"topico", topico>> >>, kwargs)

\* Characters of the report the script prints.
PrintLimit == 500

RECURSIVE Slice(_, _)
\* s[:n], cut at the last token that fits
Slice(s, n) ==
    IF s = <<>> \/ TokLen(Head(s)) > n THEN <<>>
    ELSE <<Head(s)>> \o Slice(Tail(s), n - TokLen(Head(s)))

\* What the script prints of a report.
PrintText(relatorio_final) ==
    IF len(relatorio_final) > PrintLimit
    THEN Slice(relatorio_final, PrintLimit) \o <<"...">>
    ELSE relatorio_final

\* The dict the except branch assigns to resultado.
ErrorResult(msg) == << <<"relatorio_final", <<"Erro na execução: ">> \o msg>> >>

\* What kickoff returns: the value the last step of the run returned.
KickoffResult ==
    IF output["finalizar_flow"] # <<>> THEN output["finalizar_flow"][1]
    ELSE IF output["analise_rejeicao_complexa"] # <<>>
         THEN output["analise_rejeicao_complexa"][1]
         ELSE output["analise_rejeicao_simples"][1]

\* resultado["relatorio_final"]
ResultadoRelatorio ==
    IF script.caught # <<>> THEN Get(script.resultado[1], "relatorio_final", <<>>)
    ELSE script.resultado[1].relatorio_final

\* The script has called executar_flow with its two example parameters.
InitMain ==
    /\ RunIs(Called(executar_flow(TOPICO_EXEMPLO,
                                   << <<"info_externa_1", INFO_ADICIONAL>> >>)))
    /\ current = 1
    /\ parked = <<>>
    /\ Idle

\* executar_flow returns what kickoff returned; the script goes on in the try block.
Main_return ==
    /\ script.pc = "try"
    /\ Terminated
    /\ script' = [script EXCEPT !.pc = "plot", !.resultado = <<KickoffResult>>]
    /\ UNCHANGED <<runVars, current, parked, clock, files, toolCalls>>

\* plot(), still inside the try block: it returns, or it raises and the
\* except branch replaces resultado.
Main_plot ==
    /\ script.pc = "plot"
    /\ \/ script' = [script EXCEPT !.pc = "print", !.plotted = @ + 1]
       \/ \E msg \in Msgs :
            script' = [script EXCEPT !.pc = "print", !.plotted = @ + 1,
                                     !.caught = <<msg>>,
                                     !.resultado = <<ErrorResult(msg)>>]
    /\ UNCHANGED <<runVars, current, parked, clock, files, toolCalls>>

\* An except branch that also draws the plot.
Main_except_Plot ==
    /\ script.pc = "try"
    /\ Aborted
    /\ script' = [script EXCEPT !.pc = "print", !.plotted = @ + 1,
                                 !.caught = <<raised[2]>>,
                                 !.resultado = <<ErrorResult(raised[2])>>]
    /\ UNCHANGED <<runVars, current, parked, clock, files, toolCalls>>

\* executar_flow raised: the except branch assigns the error dict.
Main_except ==
    /\ script.pc = "try"
    /\ Aborted
    /\ script' = [script EXCEPT !.pc = "print", !.caught = <<raised[2]>>,
                                 !.resultado = <<ErrorResult(raised[2])>>]
    /\ UNCHANGED <<runVars, current, parked, clock, files, toolCalls>>

\* The statements after the try: the report is printed.
Main_print ==
    /\ script.pc = "print"
    /\ script' = [script EXCEPT !.pc = "done", !.printed = <<PrintText(ResultadoRelatorio)>>]
    /\ UNCHANGED <<runVars, current, parked, clock, files, toolCalls>>

NextMain == Kickoff \/ Next \/ Main_return \/ Main_plot \/ Main_except \/ Main_print

\* The script runs to its end: kickoff awaits the steps, and the statements
\* of the script follow one another.
MainSpec == InitMain /\ [][NextMain]_vars /\ WF_vars(NextMain)

----------------------------------------------------------------------------
(* Properties *)

IsReady(s) == \E inv \in ready : inv[1] = s

RejectedLabels == {"complexo_rejeitado", "simples_rejeitado"}

ApprovedLabels == {"complexo_aprovado", "simples_aprovado"}

BranchSteps ==
    {"processamento_avancado", "processamento_rapido",
     "analise_rejeicao_complexa", "analise_rejeicao_simples"}

CrewSteps == {"executar_crew_exemplo", "executar_crew_exemplo_2", "gerar_relatorio_final"}

\* C1: whatever label the router returned, a run that ends (kickoff returns)
\* has executed finalizar_flow.
C1_FinalizeOnEveryRoute ==
    (Terminated /\ route # <<>>) => execCount["finalizar_flow"] >= 1

\* C2: the state finalizar_flow receives and returns has tipo_processamento
\* equal to the label the router returned in that run.
C2_TipoProcessamentoIsLabel ==
    output["finalizar_flow"] # <<>> =>
        /\ input["finalizar_flow"][1].tipo_processamento = route[1]
        /\ output["finalizar_flow"][1].tipo_processamento = route[1]

\* C3: consolidar_analises_rejeicao is neither ready nor executed unless
\* analise_rejeicao_complexa and analise_rejeicao_simples have both returned.
C3_AndJoinAfterBoth ==
    (IsReady("consolidar_analises_rejeicao") \/ execCount["consolidar_analises_rejeicao"] > 0)
        => /\ output["analise_rejeicao_complexa"] # <<>>
           /\ output["analise_rejeicao_simples"] # <<>>

\* One rejection analysis has returned and the AND-join is held back.
C3_Witness ==
    /\ output["analise_rejeicao_complexa"] # <<>>
    /\ output["analise_rejeicao_simples"] = <<>>
    /\ ~IsReady("consolidar_analises_rejeicao")
    /\ execCount["consolidar_analises_rejeicao"] = 0

\* C4: a run whose router returned a rejection label has, when it ends,
\* executed consolidar_analises_rejeicao, whose entry is the last of logs_and.
C4_RejectionConsolidates ==
    (Terminated /\ route # <<>> /\ route[1] \in RejectedLabels) =>
        /\ output["consolidar_analises_rejeicao"] # <<>>
        /\ LET logs == output["consolidar_analises_rejeicao"][1].logs_and IN
             /\ logs # <<>>
             /\ logs[Len(logs)] = "Consolidação AND: todas as análises de rejeição processadas"

\* C5: each OR-join step is ready or executed only after one of its listed
\* predecessors has returned, and executes at most once.
C5_OrJoinOnceAfterPredecessor ==
    /\ execCount["logger_processamento_aprovado"] <= 1
    /\ execCount["finalizar_flow"] <= 1
    /\ (IsReady("logger_processamento_aprovado") \/ execCount["logger_processamento_aprovado"] > 0)
          => (output["processamento_avancado"] # <<>> \/ output["processamento_rapido"] # <<>>)
    /\ (IsReady("finalizar_flow") \/ execCount["finalizar_flow"] > 0)
          => (output["logger_processamento_aprovado"] # <<>>
              \/ output["consolidar_analises_rejeicao"] # <<>>)

\* Both OR-joins have executed.
C5_Witness ==
    /\ execCount["logger_processamento_aprovado"] = 1
    /\ execCount["finalizar_flow"] = 1
    /\ output["processamento_rapido"] # <<>>

\* C6: no step executes more than once in a run.
C6_NoStepTwice == \A s \in Steps : execCount[s] <= 1

\* A run that went from the start step to finalizar_flow.
C6_Witness ==
    /\ Terminated
    /\ execCount["iniciar_flow"] = 1
    /\ execCount["decidir_tipo_processamento"] = 1
    /\ execCount["processamento_avancado"] = 1
    /\ execCount["finalizar_flow"] = 1

\* The step listening to a crew step.
Successor(s) ==
    CASE s = "executar_crew_exemplo" -> "executar_crew_exemplo_2"
      [] s = "executar_crew_exemplo_2" -> "gerar_relatorio_final"
      [] s = "gerar_relatorio_final" -> "avaliar_complexidade"

\* The step's result field holds the fallback for the message msg.
HoldsFallback(s, state, msg) ==
    CASE s = "executar_crew_exemplo" ->
            /\ Keys(state.resultado_crew_exemplo) = {"erro", "resultado_alternativo"}
            /\ Get(state.resultado_crew_exemplo, "erro", <<>>) = msg
      [] s = "executar_crew_exemplo_2" ->
            /\ Keys(state.resultado_crew_exemplo_2) = {"erro", "resultado_alternativo"}
            /\ Get(state.resultado_crew_exemplo_2, "erro", <<>>) = msg
      [] s = "gerar_relatorio_final" ->
            state.relatorio_final = <<"Não foi possível gerar o relatório: ">> \o msg

\* C7: when the crew call of a crew step raised, the step let no exception
\* escape, returned a state whose result field holds the fallback, and its
\* successor is ready with, or has received, that state.
C7_CrewFailureDegrades ==
    \A s \in CrewSteps :
        crewRaised[s] # <<>> =>
            /\ raised = <<>> \/ raised[1] # s
            /\ output[s] # <<>>
            /\ HoldsFallback(s, output[s][1], crewRaised[s][1])
            /\ \/ <<Successor(s), output[s][1]>> \in ready
               \/ input[Successor(s)] = output[s]

\* All three crew calls raised and avaliar_complexidade ran after them.
C7_Witness ==
    /\ \A s \in CrewSteps : crewRaised[s] # <<>>
    /\ output["avaliar_complexidade"] # <<>>

C9_DegradedRunReachesTerminalStep ==
    (Terminated /\ \E s \in CrewSteps : crewRaised[s] # <<>>) =>
        /\ output["finalizar_flow"] # <<>>
        /\ \A s \in CrewSteps :
              crewRaised[s] # <<>> =>
                  HoldsFallback(s, output["finalizar_flow"][1], crewRaised[s][1])

BranchOf(label) ==
    CASE label = "complexo_aprovado" -> "processamento_avancado"
      [] label = "simples_aprovado" -> "processamento_rapido"
      [] label = "complexo_rejeitado" -> "analise_rejeicao_complexa"
      [] label = "simples_rejeitado" -> "analise_rejeicao_simples"

\* C12: every label has exactly one listener, its branch step; once the
\* router has returned, the branch step of the returned label, and no other
\* branch step, is ready or has executed, and it executes once.
C12_RouterTakesRegisteredRoute ==
    /\ \A l \in Labels : {s \in Steps : l \in listen(s).on} = {BranchOf(l)}
    /\ route = <<>> => \A b \in BranchSteps : ~IsReady(b) /\ execCount[b] = 0
    /\ route # <<>> =>
          /\ route[1] \in Labels
          /\ \A b \in BranchSteps :
                (IsReady(b) \/ execCount[b] > 0) <=> b = BranchOf(route[1])
          /\ execCount[BranchOf(route[1])] <= 1
          /\ Cardinality({inv \in ready : inv[1] \in BranchSteps}) <= 1

\* The router returned simples_aprovado and processamento_rapido ran.
C12_Witness ==
    /\ route = <<"simples_aprovado">>
    /\ execCount["processamento_rapido"] = 1
    /\ output["processamento_rapido"] # <<>>

\* The steps of the single-predecessor chain, in order.
Chain ==
    <<"iniciar_flow", "preparar_informacoes_externas", "executar_crew_exemplo",
      "executar_crew_exemplo_2", "gerar_relatorio_final", "avaliar_complexidade",
      "decidir_tipo_processamento">>

\* C14: a step of the chain is ready or executed only after the step before
\* it in the chain has returned, and what it is handed and receives is what
\* that step returned.
C14_ChainInOrder ==
    \A i \in 2..Len(Chain) :
        LET p == Chain[i - 1]
            s == Chain[i]
        IN /\ (IsReady(s) \/ execCount[s] > 0) => output[p] # <<>>
           /\ \A inv \in ready : inv[1] = s => <<inv[2]>> = output[p]
           /\ input[s] # <<>> => input[s] = output[p]
           /\ execCount[s] <= execCount[p]

\* The whole chain ran, down to the router.
C14_Witness ==
    /\ route # <<>>
    /\ \A i \in 1..Len(Chain) : execCount[Chain[i]] = 1
    /\ input["decidir_tipo_processamento"] = output["avaliar_complexidade"]

\* The steps that directly trigger s: the methods it listens to, and the
\* router when it listens to a label.
DirectPreds(s) ==
    (listen(s).on \cap Steps)
    \cup (IF listen(s).on \cap Labels # {} THEN {"decidir_tipo_processamento"} ELSE {})

RECURSIVE PredsClosure(_, _)
\* The steps from which S is reached, after at most n more rounds.
PredsClosure(S, n) ==
    LET T == S \cup UNION {DirectPreds(s) : s \in S}
    IN IF n = 0 \/ T = S THEN S ELSE PredsClosure(T, n - 1)

\* The steps that are transitively predecessors of s.
Ancestors(s) == PredsClosure(DirectPreds(s), Cardinality(Steps))

\* C17: iniciar_flow is the one step without trigger, every trigger is a step
\* or a router label, the AND-join lists two predecessors, no step is
\* transitively its own predecessor, and every step that runs is the start
\* step or has it among its transitive predecessors.
C17_GraphWellFormed ==
    /\ {s \in Steps : listen(s).on = {}} = {"iniciar_flow"}
    /\ listen("iniciar_flow").kind = "START"
    /\ \A s \in Steps : listen(s).on \subseteq (Steps \cup Labels)
    /\ \A s \in Steps : listen(s).kind = "AND" => Cardinality(listen(s).on) = 2
    /\ listen("consolidar_analises_rejeicao").kind = "AND"
    /\ \A s \in Steps : s \notin Ancestors(s)
    /\ \A s \in Steps :
          execCount[s] > 0 => (s = "iniciar_flow" \/ "iniciar_flow" \in Ancestors(s))

\* The flow has run from its start step to its last step.
C17_Witness ==
    /\ execCount["iniciar_flow"] = 1
    /\ execCount["finalizar_flow"] = 1
    /\ "iniciar_flow" \in Ancestors("finalizar_flow")
    /\ Ancestors("iniciar_flow") = {}

\* C19: the label the router returned is the one the truth table gives for
\* the two flags of the state it received.
C19_RouterTruthTable ==
    route # <<>> =>
        LET st == input["decidir_tipo_processamento"][1] IN
        /\ (st.processamento_complexo /\ st.validacao_aprovada)
              => route = <<"complexo_aprovado">>
        /\ (st.processamento_complexo /\ ~st.validacao_aprovada)
              => route = <<"complexo_rejeitado">>
        /\ (~st.processamento_complexo /\ st.validacao_aprovada)
              => route = <<"simples_aprovado">>
        /\ (~st.processamento_complexo /\ ~st.validacao_aprovada)
              => route = <<"simples_rejeitado">>

\* The router returned simples_aprovado for a simple, approved state.
C19_Witness ==
    /\ route = <<"simples_aprovado">>
    /\ ~input["decidir_tipo_processamento"][1].processamento_complexo
    /\ input["decidir_tipo_processamento"][1].validacao_aprovada

\* The total avaliar_complexidade computes from the state it receives.
TotalContent(state) ==
    len(state.relatorio_final) + lenStr(state.resultado_crew_exemplo)
    + lenStr(state.resultado_crew_exemplo_2)

\* C20: processamento_complexo is set exactly when the total is more than
\* 1000, and while avaliar_complexidade is ready both values of
\* validacao_aprovada are possible results.
C20_ComplexityThreshold ==
    /\ output["avaliar_complexidade"] # <<>> =>
          (output["avaliar_complexidade"][1].processamento_complexo
             <=> TotalContent(input["avaliar_complexidade"][1]) >= 1001)
    /\ IsReady("avaliar_complexidade") =>
          \A c \in BOOLEAN :
              ENABLED (/\ Step_avaliar_complexidade
                       /\ output'["avaliar_complexidade"] # <<>>
                       /\ output'["avaliar_complexidade"][1].validacao_aprovada = c)

\* A total of exactly 1000: the flag is false, and the validation approved.
C20_Witness ==
    /\ output["avaliar_complexidade"] # <<>>
    /\ TotalContent(input["avaliar_complexidade"][1]) = 1000
    /\ ~output["avaliar_complexidade"][1].processamento_complexo
    /\ output["avaliar_complexidade"][1].validacao_aprovada

\* C13: every run reaches a state in which the start step has run and no
\* step is ready.
C13_RunTerminates == <>(phase # "kickoff" /\ ready = {})

\* A run with two failed crew calls has ended on a rejection route.
C13_Witness ==
    /\ Terminated
    /\ crewRaised["executar_crew_exemplo"] # <<>>
    /\ crewRaised["gerar_relatorio_final"] # <<>>
    /\ route = <<"simples_rejeitado">>
    /\ execCount["analise_rejeicao_simples"] = 1

\* The values a step of the run has received or will receive.
Seen ==
    {inv[2] : inv \in ready} \cup {input[s][1] : s \in {t \in Steps : input[t] # <<>>}}

\* C15: with two calls of executar_flow_async interleaved step by step, the
\* start step of a run reads the dict of its own call, every value a step
\* of the run receives carries the topic and the context strings computed
\* from that dict, and the crews are called with arguments computed from it.
C15_RunsShareNoState ==
    LET own == iniciar_flow(call_state)
        prep == preparar_informacoes_externas(own)
    IN /\ phase = "kickoff" => self_state = call_state
       /\ \A v \in Seen :
             /\ v.topico = own.topico
             /\ v.info_externa_1 \in {own.info_externa_1, prep.info_externa_1}
             /\ v.info_externa_2 \in {own.info_externa_2, prep.info_externa_2}
             /\ v.info_externa_3 \in {own.info_externa_3, prep.info_externa_3}
       /\ \A i \in DOMAIN crewCalls :
             /\ crewCalls[i][1] = "metodo_de_execucao_da_crew"
                   => crewCalls[i][2] = ArgsCrewExemplo(prep)
             /\ crewCalls[i][1] = "executar_crew_relatorio"
                   => Get(crewCalls[i][2], "topico", <<>>) = own.topico

\* The first call's run is resumed after the second call's run, started in
\* between, has got as far as its report; both have called their first crew.
C15_Witness ==
    /\ current = 1
    /\ parked # <<>>
    /\ IsReady("avaliar_complexidade")
    /\ input["gerar_relatorio_final"][1].topico = <<"X">>
    /\ parked[1].phase = "running"
    /\ parked[1].input["gerar_relatorio_final"] # <<>>
    /\ parked[1].input["gerar_relatorio_final"][1].topico = <<"Construção de Flows no CrewAI">>
    /\ Len(crewCalls) = 3
    /\ Len(parked[1].crewCalls) = 3

\* C16: two executions of the same crew function never write the same file:
\* for every task, and for the crew log, their output paths differ.
C16_OutputFileUniquePerExecution ==
    \A i \in DOMAIN files, j \in DOMAIN files :
        (i # j /\ files[i].fn = files[j].fn)
            => \A t \in DOMAIN files[i].paths : files[i].paths[t] # files[j].paths[t]

\* C18: whatever the two arguments, _run returns the one string made of the
\* prefix and the results of the two internal methods, and a call of the
\* tool changes nothing but the record of the calls.
C18_ToolResultFixed ==
    /\ [](\A c \in toolCalls :
            c[3] = <<"Organizar as informações retornadas pelos métodos internos: ",
                     "metodo interno 1", " ", "metodo interno 2">>)
    /\ [][toolCalls' # toolCalls =>
            UNCHANGED <<runVars, current, parked, clock, files, script>>]_vars

\* The tool has been called with every pair of arguments, between two crew
\* executions.
C18_Witness ==
    /\ Cardinality(toolCalls) = Cardinality(ToolArguments) * Cardinality(ToolArguments)
    /\ \E c \in toolCalls : c[1] # c[2]
    /\ Len(files) = 1

\* The crew functions in the order the flow calls them.
CrewOrder ==
    <<"metodo_de_execucao_da_crew", "metodo_de_execucao_da_crew_2", "executar_crew_relatorio">>

\* C21: the crews are called in the order crew_exemplo, crew_exemplo_2,
\* crew_relatorio, none twice; a crew step that returned, with the crew's
\* result or with the fallback, hands over to the next crew step; the second
\* crew is called with the string form of the fallback dict when the first
\* raised; and once the report step has returned, as in every run that
\* kickoff returns from, all three have been called.
C21_CrewsOnceInOrder ==
    /\ Len(crewCalls) <= Len(CrewOrder)
    /\ \A i \in DOMAIN crewCalls : crewCalls[i][1] = CrewOrder[i]
    /\ \A s \in {"executar_crew_exemplo", "executar_crew_exemplo_2"} :
          output[s] # <<>> => IsReady(Successor(s)) \/ execCount[Successor(s)] = 1
    /\ (crewRaised["executar_crew_exemplo"] # <<>> /\ Len(crewCalls) >= 2) =>
          Get(crewCalls[2][2], "dados_complexos", <<>>)
            = str(FallbackCrewExemplo(crewRaised["executar_crew_exemplo"][1]))
    /\ (output["gerar_relatorio_final"] # <<>> \/ Terminated) => Len(crewCalls) = Len(CrewOrder)

\* The first two crews raised and the report crew was called all the same,
\* after the second crew had been given the fallback of the first.
C21_Witness ==
    /\ crewRaised["executar_crew_exemplo"] # <<>>
    /\ crewRaised["executar_crew_exemplo_2"] # <<>>
    /\ crewRaised["gerar_relatorio_final"] = <<>>
    /\ Len(crewCalls) = 3
    /\ crewCalls[3][1] = "executar_crew_relatorio"
    /\ Get(crewCalls[2][2], "dados_complexos", <<>>) = str(FallbackCrewExemplo(<<"timeout">>))
    /\ Terminated

\* The topic of the run: the caller's, or the default of iniciar_flow.
TopicoOf(d) == Get(d, "topico", <<"[Tópico não especificado]">>)

\* C22: iniciar_flow returns the caller's info_externa_1 when one was
\* passed, and the arguments of the call of crew_exemplo are the three
\* strings built from the topic alone, so they are the same for every
\* info_externa_1 the caller passed.
C22_CrewArgsFromTopicoOnly ==
    /\ (output["iniciar_flow"] # <<>> /\ "info_externa_1" \in Keys(call_state)) =>
          output["iniciar_flow"][1].info_externa_1 = Get(call_state, "info_externa_1", <<>>)
    /\ crewCalls # <<>> =>
          crewCalls[1] =
            <<"metodo_de_execucao_da_crew",
              << <<"info_externa_1",
                   <<"Contexto principal sobre '">> \o TopicoOf(call_state) \o <<"'">> >>,
                 <<"info_externa_2",
                   <<"Dados complementares relacionados a '">> \o TopicoOf(call_state) \o <<"'">> >>,
                 <<"info_externa_3",
                   <<"Informações adicionais relevantes para '">> \o TopicoOf(call_state) \o <<"'">> >> >> >>

\* The caller passed an info_externa_1, iniciar_flow returned it and
\* crew_exemplo has been called.
C22_Witness ==
    /\ Get(call_state, "info_externa_1", <<>>) = <<"Foco">>
    /\ Get(call_state, "topico", <<>>) = <<"X">>
    /\ output["iniciar_flow"] # <<>>
    /\ output["iniciar_flow"][1].info_externa_1 = <<"Foco">>
    /\ Len(crewCalls) >= 1

\* The fields of a state that iniciar_flow does not set hold their defaults.
OtherFieldsDefault(st) ==
    /\ st.info_externa_2 = <<>>
    /\ st.info_externa_3 = <<>>
    /\ st.resultado_crew_exemplo = <<>>
    /\ st.resultado_crew_exemplo_2 = <<>>
    /\ st.relatorio_final = <<>>
    /\ ~st.processamento_complexo
    /\ ~st.validacao_aprovada
    /\ st.tipo_processamento = ""
    /\ st.logs_or = <<>>
    /\ st.logs_and = <<>>
    /\ st.logs_router = <<>>

\* C23 as stated: the state iniciar_flow returns has the caller's topico, or
\* '[Tópico não especificado]'; the caller's info_externa_1, or 'Contexto
\* inicial sobre ' followed by the topico of the state; and the default in
\* every other field, whatever other keys the caller passed.
C23_IniciarFlowFromTwoInputs ==
    output["iniciar_flow"] # <<>> =>
        LET st == output["iniciar_flow"][1] IN
          /\ st.topico = Get(call_state, "topico", <<"[Tópico não especificado]">>)
          /\ st.info_externa_1 =
                Get(call_state, "info_externa_1", <<"Contexto inicial sobre ">> \o st.topico)
          /\ OtherFieldsDefault(st)

\* C23 as amended: the same, except that a missing info_externa_1 becomes
\* 'Contexto inicial sobre ' followed by the caller's topico, and by
\* '[Tópico]' when the caller passed no topico either.
C23_IniciarFlowDefaults ==
    output["iniciar_flow"] # <<>> =>
        LET st == output["iniciar_flow"][1] IN
          /\ st.topico = Get(call_state, "topico", <<"[Tópico não especificado]">>)
          /\ st.info_externa_1 =
                IF "info_externa_1" \in Keys(call_state)
                THEN Get(call_state, "info_externa_1", <<>>)
                ELSE IF "topico" \in Keys(call_state)
                     THEN <<"Contexto inicial sobre ">> \o Get(call_state, "topico", <<>>)
                     ELSE <<"Contexto inicial sobre ", "[Tópico]">>
          /\ OtherFieldsDefault(st)

\* kickoff was given a relatorio_final and neither topico nor info_externa_1:
\* the state has the two defaults and no report.
C23_Witness ==
    /\ Keys(call_state) = {"relatorio_final"}
    /\ output["iniciar_flow"] # <<>>
    /\ output["iniciar_flow"][1].topico = <<"[Tópico não especificado]">>
    /\ output["iniciar_flow"][1].info_externa_1 = <<"Contexto inicial sobre ", "[Tópico]">>
    /\ output["iniciar_flow"][1].relatorio_final = <<>>

\* The entry the branch step of an approved label appends to logs_or.
BranchEntry(label) ==
    CASE label = "complexo_aprovado" -> "Processamento avançado executado"
      [] label = "simples_aprovado" -> "Processamento rápido executado"

\* The states of the run: received, to be received, or returned by a step.
Values == Seen \cup {output[s][1] : s \in {t \in Steps : output[t] # <<>>}}

\* C24: no state of a run has entries in both logs_or and logs_and, and the
\* state finalizar_flow receives after an approved label has the entry of
\* the branch step and then the logger's entry in logs_or, and no entry in
\* logs_and.
C24_BranchLogsExclusive ==
    /\ \A v \in Values : v.logs_or = <<>> \/ v.logs_and = <<>>
    /\ (input["finalizar_flow"] # <<>> /\ route # <<>> /\ route[1] \in ApprovedLabels) =>
          /\ input["finalizar_flow"][1].logs_or =
                <<BranchEntry(route[1]), "Logger OR: processamento aprovado registrado">>
          /\ input["finalizar_flow"][1].logs_and = <<>>

\* finalizar_flow has run on the complexo_aprovado route with the two
\* entries in logs_or.
C24_Witness ==
    /\ route = <<"complexo_aprovado">>
    /\ output["finalizar_flow"] # <<>>
    /\ Len(output["finalizar_flow"][1].logs_or) = 2
    /\ output["finalizar_flow"][1].logs_and = <<>>

\* The fields of FlowExemploState.
Fields == DOMAIN FlowExemploState(<<>>, <<>>)

\* The fields a step may change.
Owned(s) ==
    CASE s = "preparar_informacoes_externas" ->
            {"info_externa_1", "info_externa_2", "info_externa_3"}
      [] s = "executar_crew_exemplo" -> {"resultado_crew_exemplo"}
      [] s = "executar_crew_exemplo_2" -> {"resultado_crew_exemplo_2"}
      [] s = "gerar_relatorio_final" -> {"relatorio_final"}
      [] s = "avaliar_complexidade" -> {"processamento_complexo", "validacao_aprovada"}
      [] s \in {"processamento_avancado", "processamento_rapido",
                "logger_processamento_aprovado"} -> {"logs_or"}
      [] s \in {"analise_rejeicao_complexa", "analise_rejeicao_simples",
                "consolidar_analises_rejeicao"} -> {"logs_and"}
      [] OTHER -> {}

\* C25: every state of the run has the topico iniciar_flow returned, and
\* the state a step returned equals the state it received in every field
\* the step does not own; finalizar_flow returns what it received.
C25_StepsChangeOwnFieldsOnly ==
    /\ \A v \in Values : v.topico = output["iniciar_flow"][1].topico
    /\ \A s \in Steps \ {"iniciar_flow"} :
          (input[s] # <<>> /\ output[s] # <<>>) =>
              \A f \in Fields \ Owned(s) : output[s][1][f] = input[s][1][f]

\* finalizar_flow returned the state it received, in which each crew step
\* and the evaluation have written their own fields.
C25_Witness ==
    /\ output["finalizar_flow"] # <<>>
    /\ output["finalizar_flow"] = input["finalizar_flow"]
    /\ output["executar_crew_exemplo_2"][1].resultado_crew_exemplo_2
         # input["executar_crew_exemplo_2"][1].resultado_crew_exemplo_2
    /\ output["executar_crew_exemplo_2"][1].resultado_crew_exemplo
         = input["executar_crew_exemplo_2"][1].resultado_crew_exemplo
    /\ output["avaliar_complexidade"][1].validacao_aprovada
    /\ output["finalizar_flow"][1].relatorio_final # <<>>

\* What holds of the script at every moment.
MainSafe ==
    /\ (Aborted /\ script.pc # "try") =>
          (script.plotted = 0 /\ script.resultado = <<ErrorResult(raised[2])>>)
    /\ script.plotted > 0 => (Terminated /\ script.plotted = 1)
    /\ script.pc = "plot" => (Terminated /\ script.resultado = <<KickoffResult>>)
    /\ script.pc = "done" => script.printed = <<PrintText(ResultadoRelatorio)>>

\* C26: when executar_flow raised, plot() has not been called and resultado
\* is the dict with 'Erro na execução: ' and the message; plot() is called
\* at most once and only after executar_flow returned; what is printed at
\* the end is resultado['relatorio_final']; and the script always gets to
\* print it.
C26_MainHandlesFailure == []MainSafe /\ <>(script.pc = "done" /\ script.printed # <<>>)

\* A step of the flow let an exception escape, and the script has printed
\* the error text without calling plot().
C26_Witness ==
    /\ Aborted
    /\ raised[1] = "avaliar_complexidade"
    /\ script.pc = "done"
    /\ script.plotted = 0
    /\ script.printed = << <<"Erro na execução: ", "timeout">> >>

====
